---- MODULE Spec2Model ----
(***************************************************************************)
(* git-quick-add: the status resolver (get_paths), the selection step      *)
(* (choose_files) and the reconciler (git_add_selected) of src/lib.rs,     *)
(* driven by main of src/main.rs, over a small model of a git repository   *)
(* (HEAD tree, index, working directory, ignore rules).                    *)
(***************************************************************************)
EXTENDS Integers, Sequences, FiniteSets, TLC

\* ------------------------------------------------------------- bounds
\* Number of paths of the repository; a path is one of 1..NumPaths and the
\* status list is sorted by path, as libgit2 sorts it.
NumPaths == 2
\* Number of times the tool is run against the same repository.
MaxRuns == 2
\* Length of the raw status list handed to get_paths in SpecResolver.
MaxEntries == 2

Paths == 1..NumPaths

\* Option<&Path>::None: DiffFile::path() of a delta that carries no path.
NoPath == -1
\* The sentinel path "<unknown>".
Unknown == 0

VARIABLES
    head,        \* HEAD tree: path -> blob (0: no entry)
    index,       \* on-disk index: path -> blob (0: no entry)
    workdir,     \* working directory: path -> blob (0: no file)
    ignore_rule, \* path -> whether an ignore rule matches it
    born,        \* whether HEAD resolves to a commit
    run,         \* number of the current run of the tool
    pc,          \* position of the process: start, choose, begin, add, exited
    statuses,    \* what repo.statuses(None) returned in this run
    items,       \* the Vec<PathItems> of this run
    selections,  \* the indices the prompt returned
    i,           \* position of the reconciler's loop (1-based)
    logs,        \* the reconciler's logs vector
    out,         \* lines printed in this run
    ops,         \* index operations performed in this run
    n_writes,    \* calls of index.write() in this run
    called,      \* functions of lib.rs entered in this run
    exit_code,   \* exit status of the process (-1 while it runs)
    failure,     \* what made the run fail ("none" when nothing did)
    failed_at,   \* position of the item whose operation failed (0: none)
    index0,      \* the index as it was when this run started
    prev         \* summary of the previous run

vars == <<head, index, workdir, ignore_rule, born, run, pc, statuses, items,
          selections, i, logs, out, ops, n_writes, called, exit_code, failure,
          failed_at, index0, prev>>

\* ------------------------------------------------- repository status
\* Option<DiffDelta>: some = FALSE is None.
NoDelta == [some |-> FALSE, new |-> NoPath, old |-> NoPath]

Delta(new, old) == [some |-> TRUE, new |-> new, old |-> old]

\* git_status_list_new: the HEAD->index delta of path p.
HeadToIndex(p) ==
    IF head[p] = index[p] THEN NoDelta ELSE Delta(p, p)

\* git_status_list_new: the index->workdir delta of path p.
IndexToWorkdir(p) ==
    IF index[p] = workdir[p] THEN NoDelta ELSE Delta(p, p)

IndexFlags(p) ==
    IF head[p] = index[p] THEN {}
    ELSE IF head[p] = 0 THEN {"INDEX_NEW"}
    ELSE IF index[p] = 0 THEN {"INDEX_DELETED"}
    ELSE {"INDEX_MODIFIED"}

\* A file that is not in the index is untracked: WT_NEW, or IGNORED when an
\* ignore rule matches it.
WorkdirFlags(p) ==
    IF index[p] = workdir[p] THEN {}
    ELSE IF index[p] = 0 THEN (IF ignore_rule[p] THEN {"IGNORED"} ELSE {"WT_NEW"})
    ELSE IF workdir[p] = 0 THEN {"WT_DELETED"}
    ELSE {"WT_MODIFIED"}

StatusEntry(p) ==
    [status |-> IndexFlags(p) \cup WorkdirFlags(p),
     h2i    |-> HeadToIndex(p),
     i2w    |-> IndexToWorkdir(p)]

RECURSIVE StatusesFrom(_)
\* The entries of paths p..NumPaths that have a status, in path order.
StatusesFrom(p) ==
    IF p > NumPaths THEN <<>>
    ELSE IF StatusEntry(p).status = {} THEN StatusesFrom(p + 1)
    ELSE <<StatusEntry(p)>> \o StatusesFrom(p + 1)

\* repo.statuses(None): untracked and ignored files included (the defaults).
RepoStatuses == StatusesFrom(1)

\* ------------------------------------------------------- get_paths
\* lib.rs 25: the entry is skipped when its status equals Status::IGNORED.
IsSkipped(entry) == entry.status = {"IGNORED"}

Item(path, staged) == [path |-> path, is_staged |-> staged, is_selected |-> FALSE]

\* PathItem with the index->workdir delta tried before the HEAD->index delta.
PathItem_WorkdirFirst(entry) ==
    IF entry.i2w.some /\ entry.i2w.new # NoPath
        THEN Item(entry.i2w.new, FALSE)
    ELSE IF entry.h2i.some /\ entry.h2i.new # NoPath
        THEN Item(entry.h2i.new, TRUE)
    ELSE IF entry.i2w.some /\ entry.i2w.old # NoPath
        THEN Item(entry.i2w.old, FALSE)
    ELSE Item(Unknown, FALSE)

\* lib.rs 29-71: the Option chain that resolves one entry.
PathItem(entry) ==
    IF entry.h2i.some /\ entry.h2i.new # NoPath
        THEN Item(entry.h2i.new, TRUE)
    ELSE IF entry.i2w.some /\ entry.i2w.new # NoPath
        THEN Item(entry.i2w.new, FALSE)
    ELSE IF entry.i2w.some /\ entry.i2w.old # NoPath
        THEN Item(entry.i2w.old, FALSE)
    ELSE Item(Unknown, FALSE)

RECURSIVE ResolveItems(_)
\* lib.rs 22-74: the loop over statuses.iter(), pushing one item per kept entry.
ResolveItems(sts) ==
    IF sts = <<>> THEN <<>>
    ELSE IF IsSkipped(Head(sts)) THEN ResolveItems(Tail(sts))
    ELSE <<PathItem(Head(sts))>> \o ResolveItems(Tail(sts))

Msg(text) == [text |-> text, path |-> NoPath]

\* get_paths as a function of the status list: what it returns ("ok" with the
\* items, or "exit" when it ends the process itself) and what it prints.
get_paths(sts) ==
    IF sts = <<>>
        THEN [result |-> "ok", items |-> <<>>, code |-> 0,
              out |-> <<Msg("working tree clean")>>]
    ELSE IF ResolveItems(sts) = <<>>
        THEN [result |-> "exit", items |-> <<>>, code |-> 1,
              out |-> <<Msg("working tree clean")>>]
    ELSE [result |-> "ok", items |-> ResolveItems(sts), code |-> 0, out |-> <<>>]

\* ----------------------------------------------------- choose_files
\* ApplySelection that also keeps every pre-checked row selected.
ApplySelection_KeepsDefaults(its, sel) ==
    [k \in 1..Len(its) |->
        [its[k] EXCEPT !.is_selected = (k \in sel) \/ its[k].is_staged]]

\* lib.rs 107-113: the items with is_selected set for every chosen index.
ApplySelection(its, sel) ==
    [k \in 1..Len(its) |->
        [its[k] EXCEPT !.is_selected = IF k \in sel THEN TRUE ELSE @]]

\* ------------------------------------------------- git_add_selected
\* NeedsUnstage without the test of is_selected.
NeedsUnstage_IgnoresSelection(item) == item.is_staged

\* lib.rs 131: the item is staged and was deselected.
NeedsUnstage(item) == item.is_staged /\ ~item.is_selected

\* NeedsStage without the test of is_staged.
NeedsStage_IgnoresStaged(item) == item.is_selected

\* lib.rs 140: the item is not staged and was selected.
NeedsStage(item) == ~item.is_staged /\ item.is_selected

\* lib.rs 159-171: the label of an item that needs no operation.
LogLabel(item) == IF item.is_staged THEN "Staged:" ELSE "Unstaged:"

Line(label, path) == [text |-> label, path |-> path]

\* repo.reset_default(Some(HEAD commit), [path]): the index entry of the path
\* becomes HEAD's (none when HEAD has none), and the index is written.
reset_default(idx, p) == [idx EXCEPT ![p] = head[p]]

\* index.add_path(path) fails when the working directory holds no such file.
CanAdd(p) == p \in Paths /\ workdir[p] # 0

\* index.add_path(path) followed by index.write(): the entry becomes the file's.
add_path(idx, p) == [idx EXCEPT ![p] = workdir[p]]

Op(name, path, pos) == [op |-> name, path |-> path, pos |-> pos]

\* PrintedOnAbort that prints the logs gathered so far.
PrintedOnAbort_Flushes(lg) == lg

\* lib.rs 132, 175: `?` returns before the logs are printed; so does process::exit.
PrintedOnAbort(lg) == <<>>

\* lib.rs 175: println!("{}", logs.join("\n")), an empty line when there is no log.
PrintedOnReturn(lg) == IF lg = <<>> THEN <<Msg("")>> ELSE lg

\* main.rs 18-20: an Err of git_add_selected is printed and main returns.
ExitCodeOnErr == 0

\* ------------------------------------------------------------ state
Blobs == 0..3

\* Blob numbers only say which entries are equal: 1 is HEAD's blob, 2 a blob
\* the index holds and HEAD does not, 3 a blob only the working directory holds.
\* An ignore rule bears only on a file that is untracked or can become so (the
\* reset of a path HEAD does not hold removes its index entry); elsewhere a
\* rule is the same as none.
RepoOk ==
    /\ \A p \in Paths :
        /\ head[p] \in 0..1
        /\ index[p] \in {0, 2} \cup {head[p]}
        /\ workdir[p] \in {0, 3} \cup {head[p]} \cup {index[p]}
        /\ (ignore_rule[p] => (workdir[p] # 0 /\ (head[p] = 0 \/ index[p] = 0)))
    /\ (~born => \A p \in Paths : head[p] = 0)

FreshRun ==
    /\ pc = "start"
    /\ statuses = <<>>
    /\ items = <<>>
    /\ selections = {}
    /\ i = 0
    /\ logs = <<>>
    /\ out = <<>>
    /\ ops = <<>>
    /\ n_writes = 0
    /\ called = {}
    /\ exit_code = -1
    /\ failure = "none"
    /\ failed_at = 0

Init ==
    /\ born \in BOOLEAN
    /\ head \in [Paths -> Blobs]
    /\ index \in [Paths -> Blobs]
    /\ workdir \in [Paths -> Blobs]
    /\ ignore_rule \in [Paths -> BOOLEAN]
    /\ RepoOk
    /\ run = 1
    /\ FreshRun
    /\ index0 = index
    /\ prev = [selected |-> {}, n_ops |-> 0]

\* The process ends with this exit code after printing these lines.
Exit(code, why, lines) ==
    /\ pc' = "exited"
    /\ exit_code' = code
    /\ failure' = why
    /\ out' = out \o lines

\* ---------------------------------------------------------- actions
\* main.rs 6-14 and get_paths on the status list sts.
GetPathsOn(sts, open_ok, status_ok) ==
    /\ pc = "start"
    /\ UNCHANGED <<head, index, workdir, ignore_rule, born, run, selections, i,
                   logs, ops, n_writes, failed_at, index0, prev>>
    /\ IF ~open_ok
         THEN /\ Exit(1, "open", <<Msg("Not a git repository")>>)
              /\ UNCHANGED <<statuses, items, called>>
       ELSE IF ~status_ok
         THEN /\ Exit(1, "status", <<Msg("No files found")>>)
              /\ called' = called \cup {"get_paths"}
              /\ UNCHANGED <<statuses, items>>
       ELSE /\ statuses' = sts
            /\ called' = called \cup {"get_paths"}
            /\ items' = get_paths(sts).items
            /\ IF get_paths(sts).result = "exit"
                 THEN Exit(get_paths(sts).code, "none", get_paths(sts).out)
                 ELSE /\ pc' = "choose"
                      /\ out' = out \o get_paths(sts).out
                      /\ UNCHANGED <<exit_code, failure>>

GetPaths ==
    \E open_ok, status_ok \in BOOLEAN :
        GetPathsOn(RepoStatuses, open_ok, status_ok)

\* choose_files: the prompt returns any set of row indices, or fails.
ChooseFiles ==
    /\ pc = "choose"
    /\ called' = called \cup {"choose_files"}
    /\ UNCHANGED <<head, index, workdir, ignore_rule, born, run, statuses, i,
                   logs, ops, n_writes, failed_at, index0, prev>>
    /\ \/ /\ Exit(1, "prompt", <<Msg("Error selecting files")>>)
          /\ UNCHANGED <<items, selections>>
       \/ \E sel \in SUBSET (1..Len(items)) :
            /\ selections' = sel
            /\ items' = ApplySelection(items, sel)
            /\ pc' = "begin"
            /\ UNCHANGED <<exit_code, failure, out>>

\* lib.rs 123-127: repo.index()? and the heading.
AddBegin ==
    /\ pc = "begin"
    /\ called' = called \cup {"git_add_selected"}
    /\ UNCHANGED <<head, index, workdir, ignore_rule, born, run, statuses, items,
                   selections, logs, ops, n_writes, failed_at, index0, prev>>
    /\ \/ /\ Exit(ExitCodeOnErr, "index", <<Msg("Failed to stage files")>>)
          /\ i' = i
       \/ /\ pc' = "add"
          /\ i' = 1
          /\ out' = out \o <<Msg("Changes Made:")>>
          /\ UNCHANGED <<exit_code, failure>>

\* lib.rs 131-139: unstage items[i].
Unstage ==
    /\ pc = "add" /\ i <= Len(items) /\ NeedsUnstage(items[i])
    /\ UNCHANGED <<head, workdir, ignore_rule, born, run, statuses, items,
                   selections, n_writes, called, index0, prev>>
    /\ IF ~born
         THEN /\ Exit(ExitCodeOnErr, "head",
                      PrintedOnAbort(logs) \o <<Msg("Failed to stage files")>>)
              /\ failed_at' = i
              /\ UNCHANGED <<index, i, logs, ops>>
         ELSE /\ index' = reset_default(index, items[i].path)
              /\ ops' = Append(ops, Op("reset", items[i].path, i))
              /\ logs' = Append(logs, Line("Unstaged:", items[i].path))
              /\ i' = i + 1
              /\ UNCHANGED <<pc, exit_code, failure, out, failed_at>>

\* lib.rs 140-157: stage items[i] and write the index.
Stage ==
    /\ pc = "add" /\ i <= Len(items)
    /\ ~NeedsUnstage(items[i]) /\ NeedsStage(items[i])
    /\ UNCHANGED <<head, workdir, ignore_rule, born, run, statuses, items,
                   selections, called, index0, prev>>
    /\ IF ~CanAdd(items[i].path)
         THEN /\ Exit(1, "add", PrintedOnAbort(logs) \o <<Msg("add_path error")>>)
              /\ failed_at' = i
              /\ UNCHANGED <<index, i, logs, ops, n_writes>>
         ELSE /\ n_writes' = n_writes + 1
              /\ logs' = Append(logs, Line("Staged:", items[i].path))
              /\ \/ /\ index' = add_path(index, items[i].path)
                    /\ ops' = ops \o <<Op("add", items[i].path, i),
                                       Op("write", items[i].path, i)>>
                    /\ i' = i + 1
                    /\ UNCHANGED <<pc, exit_code, failure, out, failed_at>>
                 \/ /\ Exit(1, "write",
                            PrintedOnAbort(logs') \o <<Msg("Failed to write index")>>)
                    /\ failed_at' = i
                    /\ UNCHANGED <<index, i, ops>>

\* lib.rs 158-172: the item needs no operation.
Keep ==
    /\ pc = "add" /\ i <= Len(items)
    /\ ~NeedsUnstage(items[i]) /\ ~NeedsStage(items[i])
    /\ logs' = Append(logs, Line(LogLabel(items[i]), items[i].path))
    /\ i' = i + 1
    /\ UNCHANGED <<head, index, workdir, ignore_rule, born, run, pc, statuses,
                   items, selections, out, ops, n_writes, called, exit_code,
                   failure, failed_at, index0, prev>>

\* lib.rs 175-177 and the end of main: the logs are printed, the process exits 0.
AddEnd ==
    /\ pc = "add" /\ i > Len(items)
    /\ Exit(0, "none", PrintedOnReturn(logs))
    /\ UNCHANGED <<head, index, workdir, ignore_rule, born, run, statuses, items,
                   selections, i, logs, ops, n_writes, called, failed_at, index0,
                   prev>>

Completed == pc = "exited" /\ failure = "none" /\ "git_add_selected" \in called

\* The tool is run again on the repository as a completed run left it. (A run
\* that failed leaves a repository that Init already contains.)
Rerun ==
    /\ Completed /\ run < MaxRuns
    /\ run' = run + 1
    /\ prev' = [selected |-> {items[k].path : k \in selections},
                n_ops |-> Len(ops)]
    /\ index0' = index
    /\ pc' = "start"
    /\ statuses' = <<>>
    /\ items' = <<>>
    /\ selections' = {}
    /\ i' = 0
    /\ logs' = <<>>
    /\ out' = <<>>
    /\ ops' = <<>>
    /\ n_writes' = 0
    /\ called' = {}
    /\ exit_code' = -1
    /\ failure' = "none"
    /\ failed_at' = 0
    /\ UNCHANGED <<head, index, workdir, ignore_rule, born>>

Next ==
    \/ GetPaths
    \/ ChooseFiles
    \/ AddBegin
    \/ Unstage
    \/ Stage
    \/ Keep
    \/ AddEnd
    \/ Rerun

Spec == Init /\ [][Next]_vars

\* ------------------------------------------- get_paths on its own
\* The status entries the git2 API can hand to get_paths: each delta is there
\* or not, and each of its files has a path or not. The HEAD->index delta names
\* path 1, the index->workdir delta names 2 (new file) and 3 (old file).
Entries ==
    {[status |-> st, h2i |-> h, i2w |-> w] :
        st \in SUBSET {"INDEX_NEW", "IGNORED"},
        h \in {NoDelta, Delta(1, 1), Delta(NoPath, 1)},
        w \in {NoDelta} \cup {Delta(n, o) : n \in {NoPath, 2}, o \in {NoPath, 3}}}

EntryLists == UNION {[1..n -> Entries] : n \in 0..MaxEntries}

InitResolver ==
    /\ born = FALSE
    /\ head = [p \in Paths |-> 0]
    /\ index = [p \in Paths |-> 0]
    /\ workdir = [p \in Paths |-> 0]
    /\ ignore_rule = [p \in Paths |-> FALSE]
    /\ run = 1
    /\ pc = "start"
    /\ statuses \in EntryLists
    /\ items = <<>>
    /\ selections = {}
    /\ i = 0
    /\ logs = <<>>
    /\ out = <<>>
    /\ ops = <<>>
    /\ n_writes = 0
    /\ called = {}
    /\ exit_code = -1
    /\ failure = "none"
    /\ failed_at = 0
    /\ index0 = index
    /\ prev = [selected |-> {}, n_ops |-> 0]

\* get_paths applied to the given status list.
ResolveGiven == GetPathsOn(statuses, TRUE, TRUE)

NextResolver == ResolveGiven

SpecResolver == InitResolver /\ [][NextResolver]_vars

\* ------------------------------------------------------------ claims
Resolved == "get_paths" \in called /\ failure # "status"

\* The records get_paths keeps: those whose status is not exactly IGNORED.
KeptRecords == SelectSeq(statuses, LAMBDA e : e.status # {"IGNORED"})

HasNew(d) == d.some /\ d.new # NoPath

HasOld(d) == d.some /\ d.old # NoPath

\* The priority order of C6 as amended: a delta counts when it carries the path.
C6_Priority(e, it) ==
    /\ it.is_selected = FALSE
    /\ it.path # NoPath
    /\ HasNew(e.h2i) => (it.path = e.h2i.new /\ it.is_staged)
    /\ (~HasNew(e.h2i) /\ HasNew(e.i2w)) =>
            (it.path = e.i2w.new /\ ~it.is_staged)
    /\ (~HasNew(e.h2i) /\ ~HasNew(e.i2w) /\ HasOld(e.i2w)) =>
            (it.path = e.i2w.old /\ ~it.is_staged)
    /\ (~HasNew(e.h2i) /\ ~HasNew(e.i2w) /\ ~HasOld(e.i2w)) =>
            (it.path = Unknown /\ ~it.is_staged)

\* The priority order as C6 states it: rule (1) applies whenever the HEAD->index
\* delta exists.
C6_PriorityAsStated(e, it) ==
    /\ it.is_selected = FALSE
    /\ it.path # NoPath
    /\ e.h2i.some => (it.path = e.h2i.new /\ it.is_staged)
    /\ (~e.h2i.some /\ HasNew(e.i2w)) =>
            (it.path = e.i2w.new /\ ~it.is_staged)
    /\ (~e.h2i.some /\ ~HasNew(e.i2w) /\ HasOld(e.i2w)) =>
            (it.path = e.i2w.old /\ ~it.is_staged)
    /\ (~e.h2i.some /\ ~HasNew(e.i2w) /\ ~HasOld(e.i2w)) =>
            (it.path = Unknown /\ ~it.is_staged)

C4_IgnoredNeverResolved ==
    Resolved =>
        \A k \in 1..Len(statuses) :
            "IGNORED" \in statuses[k].status =>
                \A j \in 1..Len(items) :
                    items[j].path \notin
                        {statuses[k].h2i.new, statuses[k].i2w.new, statuses[k].i2w.old}

\* --------------------------------------------------- the reconciler
\* The decision table of the reconciler: the operation on an item.
TableOps(it) ==
    IF it.is_staged /\ ~it.is_selected THEN <<"reset">>
    ELSE IF ~it.is_staged /\ it.is_selected THEN <<"add", "write">>
    ELSE <<>>

\* The decision table of the reconciler: the label of an item's log line.
TableLabel(it) ==
    IF it.is_staged /\ ~it.is_selected THEN "Unstaged:"
    ELSE IF ~it.is_staged /\ it.is_selected THEN "Staged:"
    ELSE IF it.is_staged THEN "Staged:"
    ELSE "Unstaged:"

\* The index entry the decision table leaves for an item.
TableEntry(it) ==
    IF it.is_staged /\ ~it.is_selected THEN head[it.path]
    ELSE IF ~it.is_staged /\ it.is_selected THEN workdir[it.path]
    ELSE index0[it.path]

\* The operations performed for the item at position k, in order.
OpsAt(k) == SelectSeq(ops, LAMBDA o : o.pos = k)

OpNames(sq) == [m \in 1..Len(sq) |-> sq[m].op]

\* The per-item log lines among the printed lines.
PrintedLogLines == SelectSeq(out, LAMBDA l : l.path # NoPath)

Reconciling == pc = "add" \/ (pc = "exited" /\ "git_add_selected" \in called)

\* C1: every item the reconciler has processed got the operation, the index
\* entry and the log label of the decision table, and a run that completes
\* prints exactly one log line per item, in record order.
C1_DecisionTable ==
    Reconciling =>
        /\ \A k \in 1..(i - 1) :
            /\ OpNames(OpsAt(k)) = TableOps(items[k])
            /\ \A m \in 1..Len(OpsAt(k)) : OpsAt(k)[m].path = items[k].path
            /\ index[items[k].path] = TableEntry(items[k])
            /\ logs[k] = Line(TableLabel(items[k]), items[k].path)
        /\ Completed =>
            /\ i = Len(items) + 1
            /\ PrintedLogLines =
                 [k \in 1..Len(items) |-> Line(TableLabel(items[k]), items[k].path)]

\* A completed run over two items that unstaged one and staged the other.
C1_Witness ==
    /\ Completed
    /\ Len(items) = 2
    /\ \E k \in 1..2 : items[k].is_staged /\ ~items[k].is_selected
    /\ \E k \in 1..2 : ~items[k].is_staged /\ items[k].is_selected

\* The path has a change recorded in the index relative to HEAD.
StagedInIndex(p) == head[p] # index[p]

\* C2: after a run that completes, each item's path is staged in the index
\* exactly when the user selected its row, and the index entry of an item whose
\* row the user did not change is what it was before the run.
C2_StagedIffSelected ==
    Completed =>
        \A k \in 1..Len(items) :
            /\ StagedInIndex(items[k].path) <=> (k \in selections)
            /\ (items[k].is_staged <=> (k \in selections)) =>
                    index[items[k].path] = index0[items[k].path]

\* A completed run in which the user deselected a staged row, selected an
\* unstaged one, and so changed the index.
C2_Witness ==
    /\ Completed
    /\ index # index0
    /\ \E k \in 1..Len(items) : items[k].is_staged /\ k \notin selections
    /\ \E k \in 1..Len(items) : ~items[k].is_staged /\ k \in selections

\* The user selected in this run the paths selected in the previous run.
SameSelection ==
    /\ run > 1
    /\ pc \in {"begin", "add", "exited"}
    /\ failure # "prompt"
    /\ {items[k].path : k \in selections} = prev.selected

\* C3: a run that follows a completed run with the same selection performs no
\* index operation, leaves the index as it found it, does not fail on an item,
\* and logs only items whose staged state already matches their selection.
C3_Idempotent ==
    SameSelection =>
        /\ ops = <<>>
        /\ n_writes = 0
        /\ index = index0
        /\ failed_at = 0
        /\ \A k \in 1..Len(logs) :
            /\ items[k].is_staged = items[k].is_selected
            /\ logs[k] = Line(LogLabel(items[k]), items[k].path)

\* A second run with the same selection completes after a first run that
\* changed the index.
C3_Witness ==
    /\ SameSelection
    /\ Completed
    /\ prev.n_ops > 0
    /\ Len(items) > 0

\* C10: when the operation on the item at position failed_at fails, the index
\* entries of the later items are untouched, the earlier items keep the entries
\* the decision table gave them, no operation was performed past that position,
\* and no per-item log line is printed.
C10_AbortOnFailure ==
    (pc = "exited" /\ failed_at > 0) =>
        /\ \A k \in (failed_at + 1)..Len(items) :
                index[items[k].path] = index0[items[k].path]
        /\ \A k \in 1..(failed_at - 1) :
                index[items[k].path] = TableEntry(items[k])
        /\ \A m \in 1..Len(ops) : ops[m].pos < failed_at
        /\ PrintedLogLines = <<>>

\* The second item's operation fails after the first item changed the index.
C10_Witness ==
    /\ pc = "exited"
    /\ failed_at = 2
    /\ index # index0
    /\ logs # <<>>

\* C5: with no record other than ignored ones, the run reports a clean tree and
\* exits 0 without calling the reconciler or changing the index.
C5_CleanTreeExitsZero ==
    (pc = "exited" /\ Resolved /\ KeptRecords = <<>>) =>
        /\ exit_code = 0
        /\ "git_add_selected" \notin called
        /\ index = index0
        /\ \E m \in 1..Len(out) : out[m] = Msg("working tree clean")

\* C7: a run that fails to unstage because HEAD does not resolve reports the
\* failure and exits nonzero.
C7_HeadFailureExitsNonzero ==
    (pc = "exited" /\ failure = "head") =>
        /\ exit_code > 0
        /\ \E m \in 1..Len(out) : out[m] = Msg("Failed to stage files")

\* C8: when the prompt is confirmed with nothing selected, the process exits
\* nonzero in choose_files: the reconciler is not run and the index is unchanged.
C8_NoSelectionExits ==
    (pc = "exited" /\ "choose_files" \in called /\ failure # "prompt"
        /\ selections = {}) =>
        /\ exit_code > 0
        /\ "git_add_selected" \notin called
        /\ index = index0

\* C9: one run calls index.write() at most once, however many items it stages.
C9_SingleIndexWrite == n_writes <= 1

====
